---- MODULE Spec2Model ----
(***************************************************************************)
(* Model of compressinja/html.py: the tag stack (enter_tag / leave_tag),   *)
(* the whitespace normalizer (normalize) and the two stream filters        *)
(* (HtmlCompressor.filter_stream, SelectiveHtmlCompressor.filter_stream).  *)
(* A Python str is modelled as a sequence of one-character strings; an     *)
(* element name is such a sequence too.                                    *)
(***************************************************************************)
EXTENDS Integers, Sequences, FiniteSets, TLC

VARIABLES mode, stream, pos, out, stack, token, strip_depth, status, err,
          hist, first

vars == <<mode, stream, pos, out, stack, token, strip_depth, status, err,
          hist, first>>

(***************************************************************************)
(* Bounds of the model.                                                    *)
(***************************************************************************)
MaxPieces == 4
MaxItems == 4
MaxDepth == 3

(***************************************************************************)
(* Character classes of the two regular expressions.                       *)
(***************************************************************************)
\* [a-zA-Z0-9_-] of _TAG_RE
NameChars ==
    {"a", "b", "c", "d", "e", "f", "g", "h", "i", "j", "k", "l", "m",
     "n", "o", "p", "q", "r", "s", "t", "u", "v", "w", "x", "y", "z",
     "A", "B", "C", "D", "E", "F", "G", "H", "I", "J", "K", "L", "M",
     "N", "O", "P", "Q", "R", "S", "T", "U", "V", "W", "X", "Y", "Z",
     "0", "1", "2", "3", "4", "5", "6", "7", "8", "9", "_", "-"}

\* \s of _TAG_RE
SpaceChars == {" ", "\t", "\n", "\r", "\f"}

\* [ \t\r\n] of _WS_NORMALIZE_RE
WsChars == {" ", "\t", "\r", "\n"}

(***************************************************************************)
(* Classification tables of HtmlCompressor.                                *)
(***************************************************************************)
isolated_elements ==
    { <<"s","c","r","i","p","t">>, <<"s","t","y","l","e">>,
      <<"n","o","s","c","r","i","p","t">>,
      <<"t","e","x","t","a","r","e","a">>, <<"p","r","e">> }

void_elements ==
    { <<"b","r">>, <<"i","m","g">>, <<"a","r","e","a">>, <<"h","r">>,
      <<"p","a","r","a","m">>, <<"i","n","p","u","t">>,
      <<"e","m","b","e","d">>, <<"c","o","l">> }

block_elements ==
    { <<"d","i","v">>, <<"p">>, <<"f","o","r","m">>, <<"u","l">>,
      <<"o","l">>, <<"l","i">>, <<"t","d">>, <<"t","h">>, <<"d","l">>,
      <<"d","t">>, <<"d","d">>,
      <<"b","l","o","c","k","q","u","o","t","e">>,
      <<"h","1">>, <<"h","2">>, <<"h","3">>, <<"h","4">>, <<"h","5">>,
      <<"h","6">>, <<"t","i","t","l","e">> }

\* set(s) for a Python str s: the set of its characters, each a str
SetOfStr(s) == { <<s[i]>> : i \in DOMAIN s }

TableSections == { <<"t","b","o","d","y">>, <<"t","h","e","a","d">>,
                   <<"t","f","o","o","t">> }

breaking_rules ==
    (<<"p">> :>
        ({ <<"d","i","v">>, <<"p">>, <<"f","o","r","m">>, <<"u","l">>,
           <<"o","l">>, <<"l","i">>, <<"t","a","b","l","e">>, <<"t","r">>,
           <<"t","d">>, <<"t","h">>, <<"d","l">>, <<"d","t">>, <<"d","d">>,
           <<"b","l","o","c","k","q","u","o","t","e">>,
           <<"h","1">>, <<"h","2">>, <<"h","3">>, <<"h","4">>, <<"h","5">>,
           <<"h","6">> } \cup TableSections))
    @@ (<<"l","i">> :> SetOfStr(<<"l","i">>))
    @@ (<<"t","d">> :> ({ <<"t","d">>, <<"t","h">>, <<"t","r">> } \cup TableSections))
    @@ (<<"t","h">> :> ({ <<"t","d">>, <<"t","h">>, <<"t","r">> } \cup TableSections))
    @@ (<<"t","r">> :> ({ <<"t","r">> } \cup TableSections))
    @@ (<<"t","b","o","d","y">> :> TableSections)
    @@ (<<"t","h","e","a","d">> :> TableSections)
    @@ (<<"t","f","o","o","t">> :> TableSections)
    @@ (<<"d","d">> :> { <<"d","l">>, <<"d","t">>, <<"d","d">> })
    @@ (<<"d","t">> :> { <<"d","l">>, <<"d","t">>, <<"d","d">> })

\* breaking_rules.get(tag): None (modelled as the empty set) without an entry
breaking_rules_get(tag) ==
    IF tag \in DOMAIN breaking_rules THEN breaking_rules[tag] ELSE {}

(***************************************************************************)
(* Tokens and errors.                                                      *)
(***************************************************************************)
Token(lineno, type, value) == [type |-> type, value |-> value, lineno |-> lineno]

\* ctx.token = None
NoToken == Token(0, "none", <<>>)

NoErr == [kind |-> "none", lineno |-> 0]

\* StreamProcessContext.fail: reads self.token.lineno, so it raises
\* AttributeError instead of TemplateSyntaxError while ctx.token is None
fail(tok) ==
    IF tok.type = "none"
    THEN [kind |-> "AttributeError", lineno |-> 0]
    ELSE [kind |-> "TemplateSyntaxError", lineno |-> tok.lineno]

(***************************************************************************)
(* Tag stack.                                                              *)
(***************************************************************************)
is_isolated(stk) == \E i \in DOMAIN stk : stk[i] \in isolated_elements

is_block(stk) == \E i \in DOMAIN stk : stk[i] \in block_elements

is_breaking(tag, other_tag) == tag \in breaking_rules_get(other_tag)

Pop(stk) == SubSeq(stk, 1, Len(stk) - 1)

\* The "implicit closures" loop of leave_tag.  it is the index (0-based) the
\* reversed() iterator reads next, idx the enumerate() counter.  The loop
\* keeps running after it has popped, on the list it has shortened.
RECURSIVE LeaveLoop(_, _, _, _)
LeaveLoop(tag, stk, it, idx) ==
    IF it < 0 \/ it >= Len(stk)
    THEN [stack |-> stk, err |-> NoErr]
    ELSE LET other_tag == stk[it + 1] IN
         IF other_tag = tag
         THEN IF idx + 1 > Len(stk)
              THEN [stack |-> <<>>,
                    err |-> [kind |-> "IndexError", lineno |-> 0]]
              ELSE LeaveLoop(tag, SubSeq(stk, 1, Len(stk) - (idx + 1)),
                             it - 1, idx + 1)
         ELSE IF breaking_rules_get(other_tag) = {}
              THEN [stack |-> stk, err |-> NoErr]
              ELSE LeaveLoop(tag, stk, it - 1, idx + 1)

\* leave_tag without the "break" of its loop: the innermost occurrence of tag
\* is closed whatever lies above it
leave_tag_no_break(tag, stk, tok) ==
    IF stk = <<>>
    THEN [stack |-> stk, err |-> fail(tok)]
    ELSE IF \E i \in DOMAIN stk : stk[i] = tag
         THEN LET k == CHOOSE i \in DOMAIN stk :
                           stk[i] = tag /\ \A j \in (i + 1)..Len(stk) : stk[j] /= tag
              IN  [stack |-> SubSeq(stk, 1, k - 1), err |-> NoErr]
         ELSE [stack |-> stk, err |-> NoErr]

\* leave_tag without its check of the empty stack
leave_tag_silent(tag, stk, tok) ==
    IF stk = <<>>
    THEN [stack |-> stk, err |-> NoErr]
    ELSE IF tag = stk[Len(stk)]
         THEN [stack |-> Pop(stk), err |-> NoErr]
         ELSE LeaveLoop(tag, stk, Len(stk) - 1, 0)

leave_tag(tag, stk, tok) ==
    IF stk = <<>>
    THEN [stack |-> stk, err |-> fail(tok)]
    ELSE IF tag = stk[Len(stk)]
         THEN [stack |-> Pop(stk), err |-> NoErr]
         ELSE LeaveLoop(tag, stk, Len(stk) - 1, 0)

\* enter_tag without its test of void elements and declarations
RECURSIVE enter_tag_push_all(_, _, _)
enter_tag_push_all(tag, stk, tok) ==
    IF stk /= <<>> /\ is_breaking(tag, stk[Len(stk)])
    THEN LET r == leave_tag(stk[Len(stk)], stk, tok) IN
         IF r.err.kind /= "none" THEN r ELSE enter_tag_push_all(tag, r.stack, tok)
    ELSE [stack |-> Append(stk, tag), err |-> NoErr]

\* enter_tag with an "if" in place of its "while": one implicit closure at most
enter_tag_once(tag, stk, tok) ==
    LET closed == IF stk /= <<>> /\ is_breaking(tag, stk[Len(stk)])
                  THEN Pop(stk) ELSE stk
    IN  IF tag \notin void_elements /\ tag[1] /= "!"
        THEN [stack |-> Append(closed, tag), err |-> NoErr]
        ELSE [stack |-> closed, err |-> NoErr]

\* enter_tag testing for declarations only: void elements are pushed
RECURSIVE enter_tag_push_void(_, _, _)
enter_tag_push_void(tag, stk, tok) ==
    IF stk /= <<>> /\ is_breaking(tag, stk[Len(stk)])
    THEN LET r == leave_tag(stk[Len(stk)], stk, tok) IN
         IF r.err.kind /= "none" THEN r ELSE enter_tag_push_void(tag, r.stack, tok)
    ELSE IF tag[1] /= "!"
         THEN [stack |-> Append(stk, tag), err |-> NoErr]
         ELSE [stack |-> stk, err |-> NoErr]

RECURSIVE enter_tag(_, _, _)
enter_tag(tag, stk, tok) ==
    IF stk /= <<>> /\ is_breaking(tag, stk[Len(stk)])
    THEN LET r == leave_tag(stk[Len(stk)], stk, tok) IN
         IF r.err.kind /= "none" THEN r ELSE enter_tag(tag, r.stack, tok)
    ELSE IF tag \notin void_elements /\ tag[1] /= "!"
         THEN [stack |-> Append(stk, tag), err |-> NoErr]
         ELSE [stack |-> stk, err |-> NoErr]

(***************************************************************************)
(* The regular expressions.                                                *)
(***************************************************************************)
\* The end (exclusive) of the longest run of characters of class cls that
\* starts at index j of text: what a greedy cls* consumes.
RunEnd(text, j, cls) ==
    CHOOSE k \in j..(Len(text) + 1) :
        /\ \A m \in j..(k - 1) : text[m] \in cls
        /\ (k = Len(text) + 1 \/ text[k] \notin cls)

NoMatch == [found |-> FALSE, start |-> 0, end |-> 0, closes |-> FALSE,
            tag |-> <<>>, sole |-> <<>>]

\* _TAG_RE.match at index i: <(/?)(!?[a-zA-Z0-9_-]+)\s*  or  (>\s*).
\* end is the index after the match.  Backtracking finds no second way to
\* match the first alternative: '/' and '!' are not name characters.
TagMatchAt(text, i) ==
    IF text[i] = "<"
    THEN LET j1 == IF i + 1 <= Len(text) /\ text[i + 1] = "/" THEN i + 2 ELSE i + 1
             j2 == IF j1 <= Len(text) /\ text[j1] = "!" THEN j1 + 1 ELSE j1
             j3 == RunEnd(text, j2, NameChars)
             j4 == RunEnd(text, j3, SpaceChars)
         IN  IF j3 > j2
             THEN [found |-> TRUE, start |-> i, end |-> j4, closes |-> (j1 = i + 2),
                   tag |-> SubSeq(text, j1, j3 - 1), sole |-> <<>>]
             ELSE NoMatch
    ELSE IF text[i] = ">"
         THEN LET j == RunEnd(text, i + 1, SpaceChars) IN
              [found |-> TRUE, start |-> i, end |-> j, closes |-> FALSE,
               tag |-> <<>>, sole |-> SubSeq(text, i, j - 1)]
         ELSE NoMatch

\* The next match of _TAG_RE.finditer at or after index p.
NextMatch(text, p) ==
    LET hits == { i \in p..Len(text) : TagMatchAt(text, i).found } IN
    IF hits = {} THEN NoMatch
    ELSE TagMatchAt(text, CHOOSE i \in hits : \A k \in hits : i <= k)

\* _WS_NORMALIZE_RE.sub(repl, value)
RECURSIVE WsSub(_, _)
WsSub(repl, value) ==
    IF value = <<>> THEN <<>>
    ELSE IF value[1] \in WsChars
         THEN repl \o WsSub(repl, SubSeq(value, RunEnd(value, 1, WsChars), Len(value)))
         ELSE <<value[1]>> \o WsSub(repl, Tail(value))

\* value.replace('> ', ''): the bracket goes with the space
RECURSIVE ReplaceGtSpace_both(_)
ReplaceGtSpace_both(value) ==
    IF value = <<>> THEN <<>>
    ELSE IF Len(value) >= 2 /\ value[1] = ">" /\ value[2] = " "
         THEN ReplaceGtSpace_both(SubSeq(value, 3, Len(value)))
         ELSE <<value[1]>> \o ReplaceGtSpace_both(Tail(value))

\* value.replace('> ', '>')
RECURSIVE ReplaceGtSpace(_)
ReplaceGtSpace(value) ==
    IF value = <<>> THEN <<>>
    ELSE IF Len(value) >= 2 /\ value[1] = ">" /\ value[2] = " "
         THEN <<">">> \o ReplaceGtSpace(SubSeq(value, 3, Len(value)))
         ELSE <<value[1]>> \o ReplaceGtSpace(Tail(value))

(***************************************************************************)
(* normalize.  The output buffer is kept joined: in_tag reads its          *)
(* characters in order, whatever the pieces they were appended in.         *)
(***************************************************************************)
RECURSIVE InTagFrom(_, _, _)
InTagFrom(buf, i, inside) ==
    IF i > Len(buf) THEN inside
    ELSE InTagFrom(buf, i + 1,
                   IF buf[i] = "<" THEN TRUE
                   ELSE IF buf[i] = ">" THEN FALSE ELSE inside)

in_tag(output_buffer) == InTagFrom(output_buffer, 1, FALSE)

\* write_data without its test of is_isolated
write_data_always(value, stk, output_buffer) ==
    IF ~is_block(stk) /\ ~in_tag(output_buffer)
    THEN WsSub(<<>>, value)
    ELSE IF ~is_block(stk)
         THEN ReplaceGtSpace(WsSub(<<" ">>, value))
         ELSE WsSub(<<" ">>, value)

\* write_data leaving a space placeholder outside blocks too
write_data_keep_space(value, stk, output_buffer) ==
    IF ~is_isolated(stk) THEN WsSub(<<" ">>, value) ELSE value

\* What write_data appends to the output buffer for value.
write_data(value, stk, output_buffer) ==
    IF ~is_isolated(stk)
    THEN IF ~is_block(stk) /\ ~in_tag(output_buffer)
         THEN WsSub(<<>>, value)
         ELSE IF ~is_block(stk)
              THEN ReplaceGtSpace(WsSub(<<" ">>, value))
              ELSE WsSub(<<" ">>, value)
    ELSE value

\* One record of the trace normalize leaves: a write_data call (kind "data"
\* for a preamble or the tail, "sole" for a bare bracket) or a tag match
\* (kind "tag").  stack is ctx.stack before it, next the index after it.
Frag(kind, value, written, stk, nxt) ==
    [kind |-> kind, value |-> value, written |-> written, stack |-> stk, next |-> nxt]

\* The state of one normalize call: the output buffer, ctx.stack, the error
\* raised (if any) and the trace
NormStart(stk) == [buf |-> <<>>, stack |-> stk, err |-> NoErr, frags |-> <<>>]

\* output_buffer.append(w), w being what write_data made of value
Wrote(n, kind, value, nxt, w) ==
    [n EXCEPT !.buf = @ \o w,
              !.frags = Append(@, Frag(kind, value, w, n.stack, nxt))]

\* write_data(value)
Write(n, kind, value, nxt) ==
    Wrote(n, kind, value, nxt, write_data(value, n.stack, n.buf))

\* output_buffer.append(match.group()) and the outcome r of leave_tag or
\* enter_tag
Tagged(n, group, nxt, r) ==
    [buf |-> n.buf \o group, stack |-> r.stack, err |-> r.err,
     frags |-> Append(n.frags, Frag("tag", group, group, n.stack, nxt))]

\* The body of the loop after write_data(preamble), for match m
Matched(text, n, tok, m) ==
    IF m.sole /= <<>>
    THEN Write(n, "sole", m.sole, m.end)
    ELSE Tagged(n, SubSeq(text, m.start, m.end - 1), m.end,
                IF m.closes THEN leave_tag(m.tag, n.stack, tok)
                            ELSE enter_tag(m.tag, n.stack, tok))

\* The loop over _TAG_RE.finditer from index p on, and the final write_data
RECURSIVE NormLoop(_, _, _, _)
NormNext(text, p, n, tok) ==
    IF n.err.kind /= "none" THEN n ELSE NormLoop(text, p, n, tok)

NormAt(text, p, n, tok, m) ==
    IF ~m.found
    THEN Write(n, "data", SubSeq(text, p, Len(text)), Len(text) + 1)
    ELSE NormNext(text, m.end,
                  Matched(text,
                          Write(n, "data", SubSeq(text, p, m.start - 1), m.start),
                          tok, m),
                  tok)

NormLoop(text, p, n, tok) == NormAt(text, p, n, tok, NextMatch(text, p))

\* normalize(ctx) with ctx.token = tok and ctx.stack = stk; the value
\* returned is the joined buffer
normalize(tok, stk) == NormLoop(tok.value, 1, NormStart(stk), tok)

(***************************************************************************)
(* The token stream of the host lexer (jinja2.lexer.TokenStream), as the   *)
(* filters use it: current, look(), skip(), next() and iteration.          *)
(***************************************************************************)
\* TokenStream.close(): at the end the current token is an eof token on the
\* line of the last token
EofToken ==
    Token(IF stream = <<>> THEN 1 ELSE stream[Len(stream)].lineno, "eof", <<>>)

\* stream.current when the stream stands at index p
Cur(p) == IF p <= Len(stream) THEN stream[p] ELSE EofToken

\* stream.next() / stream.skip(): no move once the current token is eof
Adv(p) == IF p <= Len(stream) THEN p + 1 ELSE p

\* stream.look(): the token after the current one
Look(p) == Cur(Adv(p))

\* token.test('name:strip') or token.test('name:endstrip')
STRIP == <<"s","t","r","i","p">>
ENDSTRIP == <<"e","n","d","s","t","r","i","p">>
IsStripName(tok) == tok.type = "name" /\ tok.value \in {STRIP, ENDSTRIP}

(***************************************************************************)
(* HtmlCompressor.filter_stream: one iteration of its for loop.            *)
(***************************************************************************)
\* The token goes out as it is and the tag stack is emptied
Passed_reset(tok, stk) ==
    [yield |-> <<tok>>, stack |-> <<>>, err |-> NoErr, norm |-> FALSE,
     frags |-> <<>>]

\* "continue" without the yield: the token is lost
Dropped(tok, stk) ==
    [yield |-> <<>>, stack |-> stk, err |-> NoErr, norm |-> FALSE,
     frags |-> <<>>]

\* "yield token": the token goes out as it is
Passed(tok, stk) ==
    [yield |-> <<tok>>, stack |-> stk, err |-> NoErr, norm |-> FALSE,
     frags |-> <<>>]

\* "yield Token(token.lineno, 'data', value)", n being what normalize left;
\* nothing is yielded when normalize raised
Normalized(tok, n) ==
    [yield |-> IF n.err.kind /= "none" THEN <<>>
               ELSE <<Token(tok.lineno, "data", n.buf)>>,
     stack |-> n.stack, err |-> n.err, norm |-> TRUE, frags |-> n.frags]

\* The body of the loop for token tok with ctx.stack = stk
BaseToken(tok, stk) ==
    IF tok.type /= "data" THEN Passed(tok, stk)
    ELSE Normalized(tok, normalize(tok, stk))

\* What one iteration leaves in hist: where the stream stood (at), the marker
\* read, strip_depth before it (depth) and after it (active), the token
\* reached (tok), ctx.stack before and after, and what was yielded
Iter(at, marker, depth, active, tokAt, stk, b) ==
    [at |-> at, marker |-> marker, depth |-> depth, active |-> active,
     tok |-> tokAt, stack |-> stk, norm |-> b.norm, frags |-> b.frags,
     after |-> b.stack, yield |-> b.yield, err |-> b.err]

BaseStep ==
    /\ mode = "base"
    /\ status = "running"
    /\ pos <= Len(stream)
    /\ \E b \in { BaseToken(stream[pos], stack) } :
           /\ token' = IF b.norm THEN stream[pos] ELSE token
           /\ stack' = b.stack
           /\ out' = out \o b.yield
           /\ err' = b.err
           /\ status' = IF b.err.kind /= "none" THEN "failed" ELSE "running"
           /\ pos' = pos + 1
           /\ hist' = Append(hist, Iter(pos, "none", strip_depth, strip_depth,
                                        pos, stack, b))
    /\ UNCHANGED <<mode, stream, strip_depth, first>>

\* The for loop ends with the stream
BaseFinish ==
    /\ mode = "base"
    /\ status = "running"
    /\ pos > Len(stream)
    /\ status' = "done"
    /\ UNCHANGED <<mode, stream, pos, out, stack, token, strip_depth, err,
                   hist, first>>

(***************************************************************************)
(* SelectiveHtmlCompressor.filter_stream: one iteration of its while loop. *)
(***************************************************************************)
NoMarker(p, d) == [marker |-> "none", depth |-> d, pos |-> p, err |-> NoErr]

\* A strip or endstrip directive read at p, d1 being the new strip_depth
StripMarker(kind, p, d1, tok) ==
    IF d1 < 0
    THEN [marker |-> kind, depth |-> d1, pos |-> Adv(p), err |-> fail(tok)]
    ELSE IF Cur(Adv(Adv(p))).type /= "block_end"
         THEN [marker |-> kind, depth |-> d1, pos |-> Adv(Adv(p)), err |-> fail(tok)]
         ELSE [marker |-> kind, depth |-> d1, pos |-> Adv(Adv(Adv(p))), err |-> NoErr]

\* The marker part of the iteration (the "if block_begin" statement), with
\* the stream at p, strip_depth = d and ctx.token = tok
Marker(p, d, tok) ==
    IF Cur(p).type = "block_begin" /\ IsStripName(Look(p))
    THEN IF Cur(Adv(p)).value = STRIP
         THEN StripMarker("strip", p, d + 1, tok)
         ELSE StripMarker("endstrip", p, d - 1, tok)
    ELSE NoMarker(p, d)

\* Nothing is yielded: the marker part raised e
Raised(stk, e) ==
    [yield |-> <<>>, stack |-> stk, err |-> e, norm |-> FALSE, frags |-> <<>>]

\* The emitting part without its test of strip_depth
SelectiveToken_always(tok, d, stk) ==
    IF tok.type = "data"
    THEN Normalized(tok, normalize(tok, stk))
    ELSE Passed(tok, stk)

\* The emitting part: normalize the current token, or yield it as it is
SelectiveToken(tok, d, stk) ==
    IF d > 0 /\ tok.type = "data"
    THEN Normalized(tok, normalize(tok, stk))
    ELSE Passed(tok, stk)

\* The generator is pulled by the host, which stops once it has the eof token.
SelectiveStep ==
    /\ mode = "selective"
    /\ status = "running"
    /\ \E m \in { Marker(pos, strip_depth, token) } :
       \E b \in { IF m.err.kind /= "none" THEN Raised(stack, m.err)
                  ELSE SelectiveToken(Cur(m.pos), m.depth, stack) } :
           /\ strip_depth' = m.depth
           /\ token' = IF b.norm THEN Cur(m.pos) ELSE token
           /\ stack' = b.stack
           /\ out' = out \o b.yield
           /\ err' = b.err
           /\ status' = IF b.err.kind /= "none" THEN "failed"
                        ELSE IF Cur(m.pos).type = "eof" THEN "done" ELSE "running"
           /\ pos' = IF b.err.kind /= "none" THEN m.pos ELSE Adv(m.pos)
           /\ hist' = Append(hist, Iter(pos, m.marker, strip_depth, m.depth,
                                        m.pos, stack, b))
    /\ UNCHANGED <<mode, stream, first>>

(***************************************************************************)
(* The output of a pass of HtmlCompressor.filter_stream that succeeded is  *)
(* filtered again: a new StreamProcessContext, an empty stack.             *)
(***************************************************************************)
NoPass == [done |-> FALSE, out |-> <<>>]

Repass ==
    /\ mode = "base"
    /\ status = "done"
    /\ ~first.done
    /\ first' = [done |-> TRUE, out |-> out]
    /\ stream' = out
    /\ pos' = 1
    /\ out' = <<>>
    /\ stack' = <<>>
    /\ token' = NoToken
    /\ status' = "running"
    /\ hist' = <<>>
    /\ UNCHANGED <<mode, strip_depth, err>>

(***************************************************************************)
(* Inputs.                                                                 *)
(***************************************************************************)
RECURSIVE Flatten(_)
Flatten(ss) == IF ss = <<>> THEN <<>> ELSE Head(ss) \o Flatten(Tail(ss))

SeqsUpTo(S, n) == UNION { [1..k -> S] : k \in 0..n }

\* Literal text is put together from at most MaxPieces of these
Pieces == { <<"<">>, <<">">>, <<"/">>, <<" ">>, <<"\n">>, <<"p">>,
            <<"p","r","e">>, <<"a">> }

Texts == { Flatten(ss) : ss \in SeqsUpTo(Pieces, MaxPieces) }

\* The literal text of the token before: what has left the tag stack as the
\* token under study finds it
Prefixes == { <<>>, <<"<","p">>, <<"<","a">>, <<"<","p","r","e">>,
              <<"<","p","r","e","<","p">> }

\* Token streams are put together from at most MaxItems of these groups of
\* tokens; the line of a token is its index in the stream
Item(type, value) == [type |-> type, value |-> value]

DataItems ==
    { << Item("data", <<"<","p",">"," ","\n">>) >>,
      << Item("data", <<" ","a"," ","\n","b"," ">>) >>,
      << Item("data", <<"<","/","p",">">>) >> }

Items ==
    DataItems \cup
    { << Item("block_begin", <<"{","%">>), Item("name", STRIP),
         Item("block_end", <<"%","}">>) >>,
      << Item("block_begin", <<"{","%">>), Item("name", ENDSTRIP),
         Item("block_end", <<"%","}">>) >>,
      << Item("block_begin", <<"{","%">>), Item("name", STRIP) >>,
      << Item("block_end", <<"%","}">>) >>,
      << Item("block_begin", <<"{","%">>) >> }

Numbered(items) == [i \in 1..Len(items) |-> Token(i, items[i].type, items[i].value)]

Streams == { Numbered(Flatten(ss)) : ss \in SeqsUpTo(Items, MaxItems) }

(***************************************************************************)
(* The stream filters on whole token streams.                              *)
(***************************************************************************)
Start(m, strm) ==
    /\ mode = m
    /\ stream = strm
    /\ pos = 1
    /\ out = <<>>
    /\ stack = <<>>
    /\ token = NoToken
    /\ strip_depth = 0
    /\ status = "running"
    /\ err = NoErr
    /\ hist = <<>>
    /\ first = NoPass

Init == \E m \in {"base", "selective"} : \E strm \in Streams : Start(m, strm)

Next == BaseStep \/ BaseFinish \/ SelectiveStep

Spec == Init /\ [][Next]_vars

(***************************************************************************)
(* The normalizer on every literal text, after every prefix.               *)
(***************************************************************************)
InitNorm ==
    \E pre \in Prefixes : \E text \in Texts :
        Start("base", << Token(1, "data", pre), Token(2, "data", text) >>)

NextNorm == BaseStep \/ BaseFinish \/ Repass

SpecNorm == InitNorm /\ [][NextNorm]_vars

(***************************************************************************)
(* The tag stack under every sequence of enter_tag and leave_tag, as       *)
(* normalize calls them: ctx.token is the literal-text token at hand.      *)
(***************************************************************************)
Names == { <<"p">>, <<"l","i">>, <<"i">>, <<"t","d">>, <<"a">>, <<"b","r">>,
           <<"!","d">> }

StackToken == Token(1, "data", <<>>)

\* What a call leaves in hist: the operation, ctx.stack before and after, and
\* whether any element has been on the stack so far
Op(op, tag, stk, r) ==
    << [op |-> op, tag |-> tag, stack |-> stk, after |-> r.stack, err |-> r.err,
        opened |-> (stk /= <<>> \/ r.stack /= <<>>
                    \/ (hist /= <<>> /\ hist[1].opened))] >>

Apply(op, tag, r) ==
    /\ stack' = r.stack
    /\ err' = r.err
    /\ status' = IF r.err.kind /= "none" THEN "failed" ELSE "running"
    /\ hist' = Op(op, tag, stack, r)
    /\ UNCHANGED <<mode, stream, pos, out, token, strip_depth, first>>

EnterTag ==
    /\ status = "running"
    /\ \E tag \in Names : \E r \in { enter_tag(tag, stack, token) } :
           /\ Len(r.stack) <= MaxDepth
           /\ Apply("enter", tag, r)

LeaveTag ==
    /\ status = "running"
    /\ \E tag \in Names : \E r \in { leave_tag(tag, stack, token) } :
           Apply("leave", tag, r)

InitStack ==
    /\ mode = "stack"
    /\ stream = << StackToken >>
    /\ pos = 1
    /\ out = <<>>
    /\ stack = <<>>
    /\ token = StackToken
    /\ strip_depth = 0
    /\ status = "running"
    /\ err = NoErr
    /\ hist = <<>>
    /\ first = NoPass

NextStack == EnterTag \/ LeaveTag

SpecStack == InitStack /\ [][NextStack]_vars

(***************************************************************************)
(* Claims.                                                                 *)
(***************************************************************************)

\* C1: in the base filter the output has one token per input token, in the
\* same order; a token that is not literal text goes out unchanged, and a
\* literal-text token goes out as a literal-text token on the same line whose
\* payload is what normalize returns for it on the stack it found.
C1_BaseFilterFrame ==
    mode = "base" =>
        /\ Len(out) <= Len(stream)
        /\ (status = "done" => Len(out) = Len(stream))
        /\ \A i \in 1..Len(out) :
               IF stream[i].type /= "data"
               THEN out[i] = stream[i]
               ELSE /\ out[i].type = "data"
                    /\ out[i].lineno = stream[i].lineno
                    /\ out[i].value = normalize(stream[i], hist[i].stack).buf

C1_Witness ==
    /\ mode = "base"
    /\ status = "done"
    /\ \E i \in 1..Len(stream) : stream[i].type /= "data"
    /\ \E i \in 1..Len(stream) :
           stream[i].type = "data" /\ out[i].value /= stream[i].value

\* C2: leave_tag called on the empty tag stack ends the pass with a
\* TemplateSyntaxError, whatever the element name and whatever calls emptied
\* the stack before.
C2_LeaveOnEmptyFails ==
    \A k \in DOMAIN hist :
        (mode = "stack" /\ hist[k].op = "leave" /\ hist[k].stack = <<>>)
            => (status = "failed" /\ err.kind = "TemplateSyntaxError")

C2_Witness ==
    /\ mode = "stack"
    /\ hist /= <<>>
    /\ hist[1].op = "leave"
    /\ hist[1].stack = <<>>
    /\ hist[1].opened
    /\ status = "failed"

\* The write_data calls of a run that had something to write
Written(h) ==
    { i \in DOMAIN h.frags : h.frags[i].kind /= "tag" /\ h.frags[i].value /= <<>> }

\* C3: a literal-text run normalized with an isolated element on the stack at
\* every write_data call that has something to write comes out equal to its
\* input, character for character.
C3_IsolatedVerbatim ==
    \A k \in DOMAIN hist :
        (/\ mode = "base"
         /\ hist[k].norm
         /\ hist[k].err.kind = "none"
         /\ \A i \in Written(hist[k]) : is_isolated(hist[k].frags[i].stack))
            => hist[k].yield = << stream[hist[k].tok] >>

C3_Witness ==
    \E k \in DOMAIN hist :
        /\ mode = "base"
        /\ hist[k].norm
        /\ hist[k].err.kind = "none"
        /\ \A i \in Written(hist[k]) : is_isolated(hist[k].frags[i].stack)
        /\ \E i \in Written(hist[k]) :
               WsSub(<<>>, hist[k].frags[i].value) /= hist[k].frags[i].value
        /\ \E i \in DOMAIN hist[k].frags : hist[k].frags[i].kind = "tag"

\* A closing bracket and the whole whitespace run after it: the bare-bracket
\* match of _TAG_RE when only characters of [ \t\r\n] follow the bracket
BracketRun(f) ==
    /\ f.kind = "sole"
    /\ Len(f.value) >= 2
    /\ \A i \in 2..Len(f.value) : f.value[i] \in WsChars

\* C4: with no isolated element on the stack, the whitespace run after the
\* closing bracket of a tag (up to the next tag, or whatever else follows it)
\* comes out as exactly one space if a block element is on the stack, and is
\* deleted otherwise.
C4_RunBetweenTags ==
    \A k \in DOMAIN hist :
        (mode = "base" /\ hist[k].norm /\ hist[k].err.kind = "none") =>
            \A i \in DOMAIN hist[k].frags :
                LET f == hist[k].frags[i] IN
                (BracketRun(f) /\ ~is_isolated(f.stack)) =>
                    f.written = IF is_block(f.stack) THEN <<">", " ">> ELSE <<">">>

\* the run between the closing bracket of one tag and the next tag of the
\* same literal text, with a block element open
C4_Witness ==
    /\ mode = "base"
    /\ status = "done"
    /\ \E k \in DOMAIN hist : \E i \in DOMAIN hist[k].frags :
           LET f == hist[k].frags[i]
               text == stream[hist[k].tok].value
           IN  /\ BracketRun(f) /\ ~is_isolated(f.stack) /\ is_block(f.stack)
               /\ f.written = <<">", " ">>
               /\ f.value /= f.written
               /\ f.next <= Len(text)
               /\ TagMatchAt(text, f.next).tag /= <<>>

\* C5: a literal text that a pass from the empty stack turns into O is turned
\* into O again by a second pass from the empty stack over O, which succeeds.
C5_Idempotent ==
    (/\ mode = "base"
     /\ first.done
     /\ first.out[1].value = <<>>
     /\ status /= "running")
        => (status = "done" /\ out = first.out)

\* C6: in the selective filter strip_depth is never negative while the pass
\* goes on, and an endstrip directive read at depth 0 ends the pass with a
\* TemplateSyntaxError.
C6_UnmatchedEndstrip ==
    mode = "selective" =>
        /\ (status /= "failed" => strip_depth >= 0)
        /\ \A k \in DOMAIN hist :
               (hist[k].marker = "endstrip" /\ hist[k].depth = 0)
                   => (status = "failed" /\ err.kind = "TemplateSyntaxError")

\* A strip or endstrip directive stands at index i of the input
MarkerAt(i, name) ==
    /\ i + 2 <= Len(stream)
    /\ stream[i].type = "block_begin"
    /\ stream[i + 1].type = "name"
    /\ stream[i + 1].value = name
    /\ stream[i + 2].type = "block_end"

\* C7: once the selective filter is through, none of the three tokens of any
\* strip or endstrip directive of the input is in the output, and strip_depth
\* is the number of strip directives less the number of endstrip directives.
C7_MarkersConsumed ==
    (mode = "selective" /\ status = "done") =>
        /\ \A i \in 1..Len(stream) :
               (MarkerAt(i, STRIP) \/ MarkerAt(i, ENDSTRIP)) =>
                   \A j \in 1..Len(out) :
                       out[j] \notin { stream[i], stream[i + 1], stream[i + 2] }
        /\ strip_depth = Cardinality({ i \in 1..Len(stream) : MarkerAt(i, STRIP) })
                         - Cardinality({ i \in 1..Len(stream) : MarkerAt(i, ENDSTRIP) })

\* The iterations of the selective filter that reached a literal-text token
\* (their marker part did not raise)
ReachedData(h) ==
    /\ Cur(h.tok).type = "data"
    /\ (h.norm \/ h.err.kind = "none")

\* C8: the selective filter passes a literal-text token through normalize
\* exactly when strip_depth is above 0 as it reaches the token; at depth 0
\* the token goes out unchanged and the tag stack stays as it is, above 0 the
\* payload and the stack are what normalize makes of them.
C8_NormalizeIffActive ==
    \A k \in DOMAIN hist :
        (mode = "selective" /\ ReachedData(hist[k])) =>
            LET h == hist[k]
                tk == Cur(h.tok)
            IN  /\ h.norm <=> h.active > 0
                /\ h.active = 0 => (h.yield = <<tk>> /\ h.after = h.stack)
                /\ (h.active > 0 /\ h.err.kind = "none") =>
                       /\ h.yield = << Token(tk.lineno, "data",
                                             normalize(tk, h.stack).buf) >>
                       /\ h.after = normalize(tk, h.stack).stack

\* unchanged at depth 0, and rewritten at depth 2 and again at depth 1 after
\* an endstrip
C8_Witness ==
    /\ mode = "selective"
    /\ \E k \in DOMAIN hist :
           /\ ReachedData(hist[k]) /\ hist[k].active = 0
           /\ Cur(hist[k].tok).value = <<"<","p",">"," ","\n">>
    /\ \E k \in DOMAIN hist :
           /\ ReachedData(hist[k]) /\ hist[k].active > 0
           /\ hist[k].err.kind = "none"
           /\ hist[k].yield[1].value /= Cur(hist[k].tok).value
           /\ hist[k].after /= hist[k].stack

\* C9: a pass that fails fails with a TemplateSyntaxError.
C9_OnlyTemplateSyntaxError ==
    status = "failed" => err.kind = "TemplateSyntaxError"

\* C10: the TemplateSyntaxError of a failed pass carries the line of the
\* offending token: the literal-text token normalize was at, or a token of
\* the strip / endstrip directive the selective filter was reading (its
\* block_begin, its name, or the token found in place of its block_end).
C10_ErrorLine ==
    (mode \in {"base", "selective"} /\ status = "failed"
     /\ err.kind = "TemplateSyntaxError") =>
        LET h == hist[Len(hist)] IN
        IF h.norm
        THEN err.lineno = Cur(h.tok).lineno
        ELSE err.lineno \in { Cur(h.at).lineno, Cur(Adv(h.at)).lineno,
                              Cur(Adv(Adv(h.at))).lineno }

\* A strip or endstrip directive with no block_end after its name starts at
\* index i of the input
MalformedAt(i) ==
    /\ i + 1 <= Len(stream)
    /\ stream[i].type = "block_begin"
    /\ IsStripName(stream[i + 1])
    /\ Cur(i + 2).type /= "block_end"

\* C11: in the selective filter a block_begin followed by the name strip or
\* endstrip and then by anything but a block_end makes the pass fail with a
\* TemplateSyntaxError: the pass does not complete, the failure raised at that
\* directive is a TemplateSyntaxError, and no token of the directive or after
\* it is in the output (the line of a token is its index in the input).
C11_MalformedMarker ==
    mode = "selective" =>
        \A i \in 1..Len(stream) :
            MalformedAt(i) =>
                /\ status /= "done"
                /\ \A j \in 1..Len(out) : out[j].lineno < i
                /\ (status = "failed" /\ hist[Len(hist)].at = i)
                       => err.kind = "TemplateSyntaxError"

\* Void elements and declarations (names that begin with '!')
Unstacked(tag) == tag \in void_elements \/ tag[1] = "!"

\* C12: after any sequence of enter_tag and leave_tag calls from the empty
\* stack, no element of the tag stack is a void element and none has a name
\* that begins with '!'.
C12_NoVoidOnStack ==
    mode = "stack" => \A i \in DOMAIN stack : ~Unstacked(stack[i])

\* a void element or a declaration has just been opened over open elements
C12_Witness ==
    /\ mode = "stack"
    /\ hist /= <<>>
    /\ hist[1].op = "enter"
    /\ Unstacked(hist[1].tag)
    /\ Len(hist[1].stack) >= 2
    /\ stack = hist[1].stack

\* The index of the innermost (topmost) occurrence of tag on stk, 0 if none
Innermost(tag, stk) ==
    IF \E i \in DOMAIN stk : stk[i] = tag
    THEN CHOOSE i \in DOMAIN stk :
             stk[i] = tag /\ \A j \in (i + 1)..Len(stk) : stk[j] /= tag
    ELSE 0

\* C13: leave_tag(name) on a non-empty stack whose top is not name, name
\* being on the stack and every element above its innermost occurrence having
\* a breaking_rules entry, removes that occurrence and everything above it,
\* leaves what is below as it was, and raises nothing.
C13_ImplicitClose ==
    (mode = "stack" /\ hist /= <<>> /\ hist[1].op = "leave") =>
        LET stk == hist[1].stack
            k == Innermost(hist[1].tag, stk)
        IN  (/\ stk /= <<>>
             /\ stk[Len(stk)] /= hist[1].tag
             /\ k > 0
             /\ \A j \in (k + 1)..Len(stk) : breaking_rules_get(stk[j]) /= {})
                => (/\ hist[1].err.kind = "none"
                    /\ hist[1].after = SubSeq(stk, 1, k - 1))

LI == <<"l","i">>

\* C14: two li are never adjacent on the tag stack (enter_tag(li) closes an
\* innermost li before it pushes), and enter_tag of any other name while li
\* is innermost leaves that li, and all below it, on the stack.
C14_LiClosedByLiOnly ==
    mode = "stack" =>
        /\ \A i \in 1..(Len(stack) - 1) : ~(stack[i] = LI /\ stack[i + 1] = LI)
        /\ (/\ hist /= <<>>
            /\ hist[1].op = "enter"
            /\ hist[1].tag /= LI
            /\ hist[1].stack /= <<>>
            /\ hist[1].stack[Len(hist[1].stack)] = LI)
               => (/\ Len(hist[1].after) >= Len(hist[1].stack)
                   /\ SubSeq(hist[1].after, 1, Len(hist[1].stack)) = hist[1].stack)

\* What is left of stk once its maximal run of topmost elements whose
\* breaking_rules entry contains tag is taken off
Unbroken(tag, stk) ==
    LET k == CHOOSE k \in 0..Len(stk) :
                 /\ \A j \in (k + 1)..Len(stk) : tag \in breaking_rules_get(stk[j])
                 /\ (k = 0 \/ tag \notin breaking_rules_get(stk[k]))
    IN  SubSeq(stk, 1, k)

\* C15: enter_tag(name) never fails; it takes the maximal run of topmost
\* elements whose breaking_rules entry contains name off the stack and then
\* pushes name, unless name is a void element or begins with '!'.
C15_EnterTag ==
    (mode = "stack" /\ hist /= <<>> /\ hist[1].op = "enter") =>
        /\ hist[1].err.kind = "none"
        /\ hist[1].after = Unbroken(hist[1].tag, hist[1].stack)
                           \o (IF Unstacked(hist[1].tag) THEN <<>>
                               ELSE << hist[1].tag >>)

\* a cascade: two elements closed by one opening, over one that stays
C15_Witness ==
    /\ mode = "stack"
    /\ hist /= <<>>
    /\ hist[1].op = "enter"
    /\ Len(Unbroken(hist[1].tag, hist[1].stack)) >= 1
    /\ Len(hist[1].stack) - Len(Unbroken(hist[1].tag, hist[1].stack)) >= 2
    /\ stack = Append(Unbroken(hist[1].tag, hist[1].stack), hist[1].tag)

\* C16: leave_tag(name) on a non-empty stack whose top is not name, when an
\* element with no breaking_rules entry lies above the innermost occurrence
\* of name, or name is not on the stack at all, leaves the stack as it is and
\* raises nothing.
C16_MisorderedCloseIgnored ==
    (mode = "stack" /\ hist /= <<>> /\ hist[1].op = "leave") =>
        LET stk == hist[1].stack
            k == Innermost(hist[1].tag, stk)
        IN  (/\ stk /= <<>>
             /\ stk[Len(stk)] /= hist[1].tag
             /\ (k = 0 \/ \E j \in (k + 1)..Len(stk) : breaking_rules_get(stk[j]) = {}))
                => (hist[1].err.kind = "none" /\ hist[1].after = stk)

\* name is on the stack, under an element with no breaking_rules entry and
\* one with an entry
C16_Witness ==
    /\ mode = "stack"
    /\ hist /= <<>>
    /\ hist[1].op = "leave"
    /\ Innermost(hist[1].tag, hist[1].stack) > 0
    /\ Innermost(hist[1].tag, hist[1].stack) + 2 <= Len(hist[1].stack)
    /\ \E j \in (Innermost(hist[1].tag, hist[1].stack) + 1)..Len(hist[1].stack) :
           breaking_rules_get(hist[1].stack[j]) = {}
    /\ breaking_rules_get(hist[1].stack[Len(hist[1].stack)]) /= {}
    /\ stack = hist[1].stack
    /\ status = "running"

\* C17: on every stack, enter_tag of a void element (any of the eight) or of
\* a declaration leaves the stack exactly as it is and raises nothing.
C17_VoidLeavesStack ==
    mode = "stack" =>
        \A tag \in void_elements \cup { <<"!","d">> } :
            enter_tag(tag, stack, token) = [stack |-> stack, err |-> NoErr]

\* a void element has been opened over an open element that has a
\* breaking_rules entry, and the stack is what it was
C17_Witness ==
    /\ mode = "stack"
    /\ hist /= <<>>
    /\ hist[1].op = "enter"
    /\ hist[1].tag \in void_elements
    /\ Len(hist[1].stack) >= 2
    /\ breaking_rules_get(hist[1].stack[Len(hist[1].stack)]) /= {}
    /\ stack = hist[1].stack

\* C18: for a tag whose name, attributes and closing bracket lie in one
\* literal text, with no isolated element on the stack, every maximal
\* whitespace run from the tag name to the closing bracket comes out as
\* exactly one space: what is written for the tag match and for the text
\* between it and the bracket is that text with each run made one space.
C18_RunsInsideTag ==
    \A k \in DOMAIN hist :
        (mode = "base" /\ hist[k].norm /\ hist[k].err.kind = "none") =>
            \A i \in DOMAIN hist[k].frags :
                LET fs == hist[k].frags IN
                (/\ fs[i].kind = "tag"
                 /\ i + 2 <= Len(fs)
                 /\ fs[i + 2].kind = "sole"
                 /\ ~is_isolated(fs[i].stack)
                 /\ ~is_isolated(fs[i + 1].stack))
                    => fs[i].written \o fs[i + 1].written
                           = WsSub(<<" ">>, fs[i].value \o fs[i + 1].value)

\* C19: in one pass of either filter the tag stack starts empty and is
\* handed from iteration to iteration: each iteration finds the stack the
\* one before left, an iteration that normalizes nothing leaves it as it
\* found it, and so each normalized literal-text token starts on the stack
\* the previous normalized one ended with.
C19_StackThreaded ==
    mode \in {"base", "selective"} =>
        /\ (hist = <<>> => stack = <<>>)
        /\ \A k \in DOMAIN hist :
               /\ hist[k].stack = IF k = 1 THEN <<>> ELSE hist[k - 1].after
               /\ ~hist[k].norm => hist[k].after = hist[k].stack
               /\ (k = Len(hist) /\ status /= "failed") => stack = hist[k].after

\* an element opened in one literal-text token governs a later one, across a
\* token that is not literal text
C19_Witness ==
    /\ mode \in {"base", "selective"}
    /\ \E k1, k2, k3 \in DOMAIN hist :
           /\ k1 < k2 /\ k2 < k3
           /\ hist[k1].norm /\ hist[k1].after /= <<>>
           /\ ~hist[k2].norm /\ Cur(hist[k2].tok).type /= "data"
           /\ hist[k3].norm /\ hist[k3].err.kind = "none"
           /\ hist[k3].stack = hist[k1].after
           /\ normalize(Cur(hist[k3].tok), <<>>).err.kind = "none"
           /\ hist[k3].yield[1].value /= normalize(Cur(hist[k3].tok), <<>>).buf

\* The characters of s that are not space, tab, carriage return or line feed
NonWs(s) == SelectSeq(s, LAMBDA c : c \notin {" ", "\t", "\r", "\n"})

\* C20: a normalize call that succeeds only removes or replaces whitespace
\* characters: the non-whitespace characters of what it returns are those
\* of its input, in order, and what it returns is not longer than its input.
C20_OnlyWhitespaceChanges ==
    \A k \in DOMAIN hist :
        (mode = "base" /\ hist[k].norm /\ hist[k].err.kind = "none") =>
            /\ NonWs(hist[k].yield[1].value) = NonWs(stream[hist[k].tok].value)
            /\ Len(hist[k].yield[1].value) <= Len(stream[hist[k].tok].value)

\* a run of whitespace with a line feed in it, between two words, replaced
\* by one space
C20_Witness ==
    \E k \in DOMAIN hist :
        /\ mode = "base"
        /\ hist[k].norm
        /\ hist[k].err.kind = "none"
        /\ Len(hist[k].yield[1].value) < Len(stream[hist[k].tok].value)
        /\ \E i \in DOMAIN hist[k].frags :
               LET f == hist[k].frags[i] IN
               /\ f.kind = "data"
               /\ Len(NonWs(f.value)) >= 2
               /\ \E j \in DOMAIN f.value : f.value[j] = "\n"
               /\ f.written = WsSub(<<" ">>, f.value)
               /\ Len(f.written) < Len(f.value)
               /\ NonWs(f.written) /= f.written

====
